---- MODULE Spec2Model ----
(***************************************************************************)
(* Model of the systemd-userdb client of package os/user:                  *)
(*   - the minimal JSON parser (userdbclientjson_linux.go),                 *)
(*   - the varlink round trip userdbClient.query and the result decoders,    *)
(*   - the five lookups built on it.                                        *)
(* Byte buffers are sequences of integers 0..255.  A Go slice r of a buffer *)
(* b is a 0-based offset p into b: r = b[p..Len(b)), so r[1:] is p + 1.     *)
(***************************************************************************)
EXTENDS Integers, Sequences, FiniteSets, TLC

(***************************************************************************)
(* Bytes and strings.                                                      *)
(***************************************************************************)
AsciiLow == " !\"#$%&'()*+,-./0123456789:;<=>?@ABCDEFGHIJKLMNOPQRSTUVWXYZ[\\]^_"

AsciiHigh == "abcdefghijklmnopqrstuvwxyz{|}~"

Ord ==
  [c \in {SubSeq(AsciiLow, i, i) : i \in 1..Len(AsciiLow)} |->
      31 + (CHOOSE i \in 1..Len(AsciiLow) : SubSeq(AsciiLow, i, i) = c)]
  @@
  [c \in {SubSeq(AsciiHigh, i, i) : i \in 1..Len(AsciiHigh)} |->
      96 + (CHOOSE i \in 1..Len(AsciiHigh) : SubSeq(AsciiHigh, i, i) = c)]

\* The bytes of an ASCII string literal.
Bytes(s) == [i \in 1..Len(s) |-> Ord[SubSeq(s, i, i)]]

\* b[p:] as a sequence.
Slice(b, p) == SubSeq(b, p + 1, Len(b))

Min(a, b) == IF a < b THEN a ELSE b

\* The elements of a sequence.
Range(seq) == {seq[i] : i \in 1..Len(seq)}

isSpace(c) == c \in {32, 9, 13, 10}

isDigit(c) == c >= 48 /\ c <= 57

\* for len(r) > 0 && isSpace(r[0]) { r = r[1:] }
\* The offset of the first byte at or after p that is not a space (Len(b) if
\* there is none).
skipSpace(b, p) ==
  CHOOSE q \in p..Len(b) :
    /\ q = Len(b) \/ ~isSpace(b[q + 1])
    /\ \A j \in (p + 1)..q : isSpace(b[j])

\* A loop whose body is Step, run from loop state s until s.done, for at most
\* k iterations.  (Halving keeps the evaluation depth logarithmic in k.)
RECURSIVE Iterate(_, _, _)
Iterate(Step(_), s, k) ==
  IF s.done \/ k <= 0 THEN s
  ELSE IF k = 1 THEN Step(s)
  ELSE Iterate(Step, Iterate(Step, s, k \div 2), k - (k \div 2))

(***************************************************************************)
(* int64 values are signed decimal numerals: mag is the digit sequence      *)
(* without leading zeros (<<0>> for zero).                                  *)
(***************************************************************************)
MaxInt64Digits == <<9, 2, 2, 3, 3, 7, 2, 0, 3, 6, 8, 5, 4, 7, 7, 5, 8, 0, 7>>

MinInt64Digits == <<9, 2, 2, 3, 3, 7, 2, 0, 3, 6, 8, 5, 4, 7, 7, 5, 8, 0, 8>>

Int64Zero == [neg |-> FALSE, mag |-> <<0>>]

RECURSIVE stripZeros(_)
stripZeros(d) ==
  IF Len(d) > 1 /\ d[1] = 0 THEN stripZeros(Tail(d)) ELSE d

\* d <= e for digit sequences without leading zeros.
RECURSIVE digitsLeq(_, _)
digitsLeq(d, e) ==
  IF Len(d) # Len(e) THEN Len(d) < Len(e)
  ELSE IF Len(d) = 0 THEN TRUE
  ELSE IF d[1] # e[1] THEN d[1] < e[1]
  ELSE digitsLeq(Tail(d), Tail(e))

\* strconv.ParseInt(s, 10, 64): optional sign, then decimal digits only.
ParseInt(s) ==
  LET signed == Len(s) > 0 /\ s[1] \in {43, 45}
      neg    == Len(s) > 0 /\ s[1] = 45
      ds     == IF signed THEN Tail(s) ELSE s
      mag    == stripZeros([i \in 1..Len(ds) |-> ds[i] - 48])
  IN  IF Len(ds) = 0 \/ \E i \in 1..Len(ds) : ~isDigit(ds[i])
        THEN [err |-> "syntax", v |-> Int64Zero]
      ELSE IF ~digitsLeq(mag, IF neg THEN MinInt64Digits ELSE MaxInt64Digits)
        THEN [err |-> "range", v |-> Int64Zero]
      ELSE [err |-> "none", v |-> [neg |-> neg /\ mag # <<0>>, mag |-> mag]]

\* strconv.FormatInt(n, 10)
FormatInt(n) ==
  (IF n.neg THEN <<45>> ELSE <<>>) \o [i \in 1..Len(n.mag) |-> n.mag[i] + 48]

(***************************************************************************)
(* JSON values carry the Go dynamic type the parser gives them.             *)
(***************************************************************************)
VObject(o) == [t |-> "jsonObject", v |-> o]

VArray(a) == [t |-> "[]any", v |-> a]

VString(s) == [t |-> "string", v |-> s]

VInt64(n) == [t |-> "int64", v |-> n]

VBool(x) == [t |-> "bool", v |-> x]

\* A nil or empty jsonObject.
EmptyObject == <<>>

\* Results of the parse functions: err is "none", an error, or "panic".
POk(v, r) == [err |-> "none", v |-> v, r |-> r]

PErr(e, r) == [err |-> e, v |-> <<>>, r |-> r]

\* jsonObjectGet[T](o, key): the value under key if its dynamic type is T.
jsonObjectGet(T, o, key) ==
  IF key \in DOMAIN o /\ o[key].t = T
    THEN [ok |-> TRUE, v |-> o[key].v]
    ELSE [ok |-> FALSE, v |-> <<>>]

(***************************************************************************)
(* findElementStart                                                        *)
(***************************************************************************)
\* One iteration of "for idx, b = range r" at index s.idx of r = b[p:].
findElementStartStep(b, p, s) ==
  LET c    == b[p + s.idx + 1]
      last == p + s.idx + 1 = Len(b)
  IN  IF isSpace(c) \/ (~s.seenColon /\ c = 58)
        THEN LET seen == s.seenColon \/ ~isSpace(c)
             IN  IF ~last
                   THEN [s EXCEPT !.idx = @ + 1, !.seenColon = seen]
                 ELSE IF seen
                   THEN [s EXCEPT !.done = TRUE, !.res = POk(<<>>, p + s.idx)]
                 ELSE [s EXCEPT !.done = TRUE,
                          !.res = PErr("expected colon, got end of input", p)]
      ELSE IF s.seenColon
        THEN [s EXCEPT !.done = TRUE, !.res = POk(<<>>, p + s.idx)]
      ELSE [s EXCEPT !.done = TRUE,
               !.res = PErr("expected colon, got invalid character", p)]

findElementStart(b, p) ==
  IF p >= Len(b) THEN PErr("expected colon, got end of input", p)
  ELSE Iterate(LAMBDA s : findElementStartStep(b, p, s),
               [idx |-> 0, seenColon |-> FALSE, done |-> FALSE,
                res |-> PErr("unfinished", p)],
               Len(b) - p).res

(***************************************************************************)
(* parseJSONInt64                                                          *)
(***************************************************************************)
\* The digit loop: the number of digits consumed, or -1 for "number too large".
RECURSIVE digitRun(_, _, _)
digitRun(b, p, n) ==
  IF p + n >= Len(b) THEN n
  ELSE IF n = 20 THEN -1
  ELSE IF isDigit(b[p + n + 1]) THEN digitRun(b, p, n + 1)
  ELSE n

parseJSONInt64(b, p0) ==
  LET p     == skipSpace(b, p0)
      count == digitRun(b, p, 0)
  IN  IF count = -1 THEN PErr("number too large", p)
      ELSE LET n == ParseInt(SubSeq(b, p + 1, p + count))
           IN  IF n.err # "none" THEN PErr(n.err, p + count)
               ELSE POk(VInt64(n.v), p + count)

(***************************************************************************)
(* parseJSONBoolean                                                        *)
(***************************************************************************)
bytesTrue == Bytes("true")

bytesFalse == Bytes("false")

parseJSONBoolean(b, p0) ==
  LET p == skipSpace(b, p0)
  IN  IF Len(b) - p >= 4 /\ SubSeq(b, p + 1, p + 4) = bytesTrue
        THEN POk(VBool(TRUE), p + 4)
      ELSE IF Len(b) - p >= 5 /\ SubSeq(b, p + 1, p + 5) = bytesFalse
        THEN POk(VBool(FALSE), p + 5)
      ELSE PErr("unable to parse boolean value", p)

(***************************************************************************)
(* UTF-8 and UTF-16 helpers of the Go runtime used by parseJSONString.     *)
(***************************************************************************)
RuneError == 65533

\* utf8.DecodeRune(b[q:]), for q < Len(b).
DecodeRune(b, q) ==
  LET n   == Len(b) - q
      b0  == b[q + 1]
      sz  == IF b0 >= 194 /\ b0 <= 223 THEN 2
             ELSE IF b0 >= 224 /\ b0 <= 239 THEN 3
             ELSE IF b0 >= 240 /\ b0 <= 244 THEN 4
             ELSE 0
      lo  == IF b0 = 224 THEN 160 ELSE IF b0 = 240 THEN 144 ELSE 128
      hi  == IF b0 = 237 THEN 159 ELSE IF b0 = 244 THEN 143 ELSE 191
      bad == [rune |-> RuneError, size |-> 1]
  IN  IF b0 < 128 THEN [rune |-> b0, size |-> 1]
      ELSE IF sz = 0 \/ n < sz THEN bad
      ELSE IF b[q + 2] < lo \/ b[q + 2] > hi THEN bad
      ELSE IF sz = 2
        THEN [rune |-> (b0 % 32) * 64 + (b[q + 2] % 64), size |-> 2]
      ELSE IF b[q + 3] < 128 \/ b[q + 3] > 191 THEN bad
      ELSE IF sz = 3
        THEN [rune |-> (b0 % 16) * 4096 + (b[q + 2] % 64) * 64 + (b[q + 3] % 64),
              size |-> 3]
      ELSE IF b[q + 4] < 128 \/ b[q + 4] > 191 THEN bad
      ELSE [rune |-> (b0 % 8) * 262144 + (b[q + 2] % 64) * 4096
                       + (b[q + 3] % 64) * 64 + (b[q + 4] % 64),
            size |-> 4]

\* utf16.IsSurrogate
IsSurrogate(rn) == rn >= 55296 /\ rn < 57344

\* utf8.EncodeRune / strings.Builder.WriteRune
EncodeRune(rn) ==
  IF rn < 128 THEN <<rn>>
  ELSE IF rn < 2048 THEN <<192 + (rn \div 64), 128 + (rn % 64)>>
  ELSE IF IsSurrogate(rn) \/ rn > 1114111 THEN <<239, 191, 189>>
  ELSE IF rn < 65536
    THEN <<224 + (rn \div 4096), 128 + ((rn \div 64) % 64), 128 + (rn % 64)>>
  ELSE <<240 + (rn \div 262144), 128 + ((rn \div 4096) % 64),
         128 + ((rn \div 64) % 64), 128 + (rn % 64)>>

\* utf16.DecodeRune(r1, r2)
DecodeSurrogates(r1, r2) ==
  IF r1 >= 55296 /\ r1 < 56320 /\ r2 >= 56320 /\ r2 < 57344
    THEN (r1 - 55296) * 1024 + (r2 - 56320) + 65536
    ELSE RuneError

hexDigit(c) ==
  IF isDigit(c) THEN c - 48
  ELSE IF c >= 97 /\ c <= 102 THEN c - 87
  ELSE IF c >= 65 /\ c <= 70 THEN c - 55
  ELSE -1

\* strconv.ParseUint(s, 16, 32) of four bytes; -1 for an error.
ParseHex4(s) ==
  IF \E i \in 1..4 : hexDigit(s[i]) = -1 THEN -1
  ELSE hexDigit(s[1]) * 4096 + hexDigit(s[2]) * 256 + hexDigit(s[3]) * 16
         + hexDigit(s[4])

(***************************************************************************)
(* parseJSONString.  p0 is the offset of r after the opening quote, cur the *)
(* absolute offset of the reader, so reader.Len() = Len(b) - cur.  Every    *)
(* iteration that does not return consumes at least one byte.               *)
(***************************************************************************)
MaxStringLen == 4096

simpleEscape(c) ==
  CASE c = 98 -> 8
    [] c = 102 -> 12
    [] c = 110 -> 10
    [] c = 114 -> 13
    [] c = 116 -> 9
    [] c = 47 -> 47
    [] c = 92 -> 92
    [] c = 34 -> 34
    [] OTHER -> -1

\* The loop state of parseJSONString.
StringState(cur, value, inEsc, inUEsc) ==
  [cur |-> cur, value |-> value, inEsc |-> inEsc, inUEsc |-> inUEsc,
   done |-> FALSE, res |-> PErr("unfinished", 0)]

StringDone(res) ==
  [cur |-> 0, value |-> <<>>, inEsc |-> FALSE, inUEsc |-> FALSE,
   done |-> TRUE, res |-> res]

stringTooLargeNever(value) == FALSE

\* if value.Len() > 4096, tested at the top of every iteration.
stringTooLarge(value) == Len(value) > MaxStringLen

\* One iteration of the for loop of parseJSONString.
parseJSONStringStep(b, p0, s) ==
  LET N      == Len(b)
      cur    == s.cur
      value  == s.value
      inEsc  == s.inEsc
      inUEsc == s.inUEsc
  IN
  IF stringTooLarge(value) THEN StringDone(PErr("string too large", p0))
  ELSE IF inUEsc THEN
    IF N - cur < 4 THEN StringDone(PErr("invalid unicode escape sequence", p0))
    ELSE
      LET rn == ParseHex4(SubSeq(b, cur + 1, cur + 4))
          c2 == cur + 4
      IN  IF rn = -1
            THEN StringDone(PErr("invalid unicode escape sequence", p0))
          ELSE IF ~IsSurrogate(rn)
            THEN StringState(c2, value \o EncodeRune(rn), inEsc, FALSE)
          ELSE IF N - c2 < 6 \/ b[c2 + 1] # 92 \/ b[c2 + 2] # 117
            \* Not \uXXXX: seek back over what was read, write U+FFFD.
            THEN StringState(c2, value \o EncodeRune(RuneError), inEsc, FALSE)
          ELSE
            LET rn1 == ParseHex4(SubSeq(b, c2 + 3, c2 + 6))
                dec == DecodeSurrogates(rn, rn1)
            IN  IF rn1 = -1
                  THEN StringDone(PErr("invalid unicode escape sequence", p0))
                ELSE StringState(c2 + 6,
                       IF dec # RuneError THEN value \o EncodeRune(dec)
                                          ELSE value,
                       inEsc, FALSE)
  ELSE IF inEsc THEN
    IF cur >= N THEN StringDone(PErr("EOF", p0))
    ELSE
      LET c == b[cur + 1]
      IN  IF c = 117 THEN StringState(cur + 1, value, FALSE, TRUE)
          ELSE IF simpleEscape(c) # -1
            THEN StringState(cur + 1, Append(value, simpleEscape(c)),
                             FALSE, inUEsc)
          ELSE StringDone(PErr("unexpected character in escape sequence", p0))
  ELSE
    IF cur >= N THEN StringDone(PErr("unexpected end of input", p0))
    ELSE
      LET d == DecodeRune(b, cur)
      IN  IF d.rune = 92 THEN StringState(cur + d.size, value, TRUE, inUEsc)
          ELSE IF d.rune = 34
            \* return value.String(), r[reader.Len():]
            THEN StringDone(POk(VString(value), p0 + (N - (cur + d.size))))
          ELSE StringState(cur + d.size, value \o EncodeRune(d.rune),
                           inEsc, inUEsc)

parseJSONString(b, pIn) ==
  LET p == skipSpace(b, pIn)
  IN  IF Len(b) - p < 2 THEN PErr("unexpected end of input", p)
      ELSE IF b[p + 1] = 34 /\ b[p + 2] = 34 THEN POk(VString(<<>>), p + 2)
      ELSE IF b[p + 1] # 34 THEN PErr("expected quote", p)
      ELSE Iterate(LAMBDA s : parseJSONStringStep(b, p + 1, s),
                   StringState(p + 1, <<>>, FALSE, FALSE),
                   Len(b) - p + 1).res

(***************************************************************************)
(* parseJSONElement, parseJSONObject, parseJSONArray                       *)
(***************************************************************************)
RECURSIVE parseJSONElement(_, _)
RECURSIVE parseJSONObjectLoop(_, _, _)
RECURSIVE parseJSONArrayLoop(_, _, _)

parseJSONObject(b, pIn) ==
  LET p == skipSpace(b, pIn)
  IN  IF Len(b) - p < 2 THEN PErr("unexpected end of input", p)
      ELSE IF b[p + 1] # 123 THEN PErr("expected {", p)
      ELSE parseJSONObjectLoop(b, p + 1, EmptyObject)

parseJSONArray(b, pIn) ==
  LET p == skipSpace(b, pIn)
  IN  IF Len(b) - p < 2 THEN PErr("unexpected end of input", p)
      ELSE IF b[p + 1] # 91 THEN PErr("expected [", p)
      ELSE parseJSONArrayLoop(b, p + 1, <<>>)

parseJSONElement(b, pIn) ==
  LET p == skipSpace(b, pIn)
  IN  IF p >= Len(b) THEN PErr("panic", p)      \* r[0] of an empty slice
      ELSE IF b[p + 1] = 123 THEN parseJSONObject(b, p)
      ELSE IF b[p + 1] = 91 THEN parseJSONArray(b, p)
      ELSE IF b[p + 1] = 34 THEN parseJSONString(b, p)
      ELSE IF b[p + 1] \in {116, 102} THEN parseJSONBoolean(b, p)
      ELSE parseJSONInt64(b, p)

parseJSONObjectLoop(b, p, obj) ==
  IF p >= Len(b) THEN PErr("unexpected end of input", p)
  ELSE IF b[p + 1] = 125 THEN POk(VObject(obj), p)
  ELSE
    LET key == parseJSONString(b, p)
    IN  IF key.err # "none" THEN key
        ELSE
          LET start == findElementStart(b, key.r)
          IN  IF start.err # "none" THEN start
              ELSE
                LET value == parseJSONElement(b, start.r)
                IN  IF value.err # "none" THEN value
                    ELSE parseJSONObjectLoop(b, value.r,
                                             (key.v.v :> value.v) @@ obj)

parseJSONArrayLoop(b, p, elements) ==
  IF p >= Len(b) THEN PErr("unexpected end of input", p)
  ELSE IF b[p + 1] = 93 THEN POk(VArray(elements), p)
  ELSE
    LET element == parseJSONElement(b, p)
    IN  IF element.err # "none" THEN element
        ELSE parseJSONArrayLoop(b, element.r, Append(elements, element.v))

(***************************************************************************)
(* The varlink interface (part_001, const block) and Go error values.       *)
(* An error is [kind, text]; text is the byte string of err.Error().        *)
(***************************************************************************)
userdbMuxSvc == Bytes("io.systemd.Multiplexer")

userdbMuxSocket == Bytes("/run/systemd/userdb/") \o userdbMuxSvc

userdbNamespace == Bytes("io.systemd.UserDatabase")

mGetGroupRecord == userdbNamespace \o Bytes(".GetGroupRecord")

mGetUserRecord == userdbNamespace \o Bytes(".GetUserRecord")

mGetMemberships == userdbNamespace \o Bytes(".GetMemberships")

errNoRecordFound == userdbNamespace \o Bytes(".NoRecordFound")

errServiceNotAvailable == userdbNamespace \o Bytes(".ServiceNotAvailable")

NilError == [kind |-> "nil", text |-> <<>>]

\* errors.New(text), and the errors of syscalls, context and strconv.
NewError(kind, text) == [kind |-> kind, text |-> text]

ENOENT == NewError("ENOENT", Bytes("no such file or directory"))

ECONNREFUSED == NewError("ECONNREFUSED", Bytes("connection refused"))

EMFILE == NewError("EMFILE", Bytes("too many open files"))

EPIPE == NewError("EPIPE", Bytes("broken pipe"))

ECONNRESET == NewError("ECONNRESET", Bytes("connection reset by peer"))

DeadlineExceeded == NewError("deadline", Bytes("context deadline exceeded"))

\* The text that the verb %s prints for err.
ErrorText(err) == IF err.kind = "nil" THEN Bytes("%!s(<nil>)") ELSE err.text

\* fmt.Errorf(prefix + ": %s", err)
Errorf(prefix, err) ==
  NewError("errorf", Bytes(prefix) \o Bytes(": ") \o ErrorText(err))

\* The error of a parse function as a Go error.
ParseError(e) == NewError("parse", Bytes(e))

(***************************************************************************)
(* userdbCall and its serialisation.                                       *)
(***************************************************************************)
\* A *int64 parameter: nil or a pointer to n.
NilInt == [set |-> FALSE, n |-> Int64Zero]

PtrInt(n) == [set |-> TRUE, n |-> n]

callParameters(uid, userName, gid, groupName) ==
  [uid |-> uid, userName |-> userName, gid |-> gid, groupName |-> groupName]

userdbCall(method, parameters, more) ==
  [method |-> method, parameters |-> parameters, more |-> more]

callParametersMarshalJSON(c) ==
  Bytes("{\"service\":\"") \o userdbMuxSvc \o Bytes("\"")
  \o (IF c.uid.set THEN Bytes(",\"uid\":") \o FormatInt(c.uid.n) ELSE <<>>)
  \o (IF c.userName # <<>>
        THEN Bytes(",\"userName\":\"") \o c.userName \o Bytes("\"") ELSE <<>>)
  \o (IF c.gid.set THEN Bytes(",\"gid\":") \o FormatInt(c.gid.n) ELSE <<>>)
  \o (IF c.groupName # <<>>
        THEN Bytes(",\"groupName\":\"") \o c.groupName \o Bytes("\"") ELSE <<>>)
  \o Bytes("}")

userdbCallMarshalJSON(u) ==
  Bytes("{\"method\":\"") \o u.method \o Bytes("\",\"parameters\":")
  \o callParametersMarshalJSON(u.parameters)
  \o (IF u.more THEN Bytes(",\"more\":true") ELSE <<>>)
  \o Bytes("}")

\* if request[len(request)-1] != 0 { request = append(request, 0) }
nullTerminate(request) ==
  IF request[Len(request)] # 0 THEN Append(request, 0) ELSE request

(***************************************************************************)
(* userdbReply.unmarshal                                                   *)
(***************************************************************************)
userdbReplyUnmarshal(data) ==
  LET reply == parseJSONObject(data, 0)
      e     == jsonObjectGet("string", reply.v.v, Bytes("error"))
      c     == jsonObjectGet("bool", reply.v.v, Bytes("continues"))
      ps    == jsonObjectGet("jsonObject", reply.v.v, Bytes("parameters"))
  IN  IF reply.err # "none"
        THEN [perr |-> reply.err, err |-> <<>>, continues |-> FALSE,
              parameters |-> EmptyObject]
      ELSE [perr |-> "none",
            err |-> IF e.ok THEN e.v ELSE <<>>,
            continues |-> IF c.ok THEN c.v ELSE FALSE,
            parameters |-> IF ps.ok THEN ps.v ELSE EmptyObject]

(***************************************************************************)
(* Replies on the wire.  parseJSONString returns r[reader.Len():], which is *)
(* the input behind the closing quote only when the string token is         *)
(* followed by exactly as many bytes as the token took behind its opening   *)
(* quote; parseJSONObject steps over no comma and leaves its '}' in place.  *)
(* Wire() lays a reply out so that the parser decodes it: a string token is *)
(* lengthened with the escape \uD800\u0041, which parseJSONString consumes  *)
(* without output, the members are separated by blanks, and one '}' closes  *)
(* every open object.  The plain replies are the JSON text systemd sends.   *)
(***************************************************************************)
Spaces(n) == [i \in 1..n |-> 32]

Repeat(x, n) == [i \in 1..(n * Len(x)) |-> x[((i - 1) % Len(x)) + 1]]

NoOutputEscape == Bytes("\\uD800\\u0041")

\* The string token for name, followed by rest.
Str(name, rest) ==
  LET need == Len(rest) - Len(name) - 1
      n    == IF need <= 0 THEN 0 ELSE (need + 11) \div 12
      raw  == Repeat(NoOutputEscape, n) \o name
      w    == Len(raw) + 1 - Len(rest)
  IN  <<34>> \o raw \o <<34>>
        \o (IF rest[1] = 125 THEN rest \o Spaces(w) ELSE Spaces(w) \o rest)

Key(name, rest) == Str(Bytes(name), Bytes(":") \o rest)

\* {"error": code}
WireError(code) == Bytes("{") \o Key("error", Str(code, Bytes("}")))

\* {"continues": true, "error": code}
WireErrorContinues(code) ==
  Bytes("{") \o Key("continues", Bytes("true") \o Key("error", Str(code, Bytes("}"))))

\* {"parameters": {"record": {...}}}; members is the wire text of the members.
WireRecord(members) ==
  Bytes("{") \o Key("parameters", Bytes("{") \o Key("record", Bytes("{") \o members))

\* {"parameters": {"userName": u, "groupName": g}}, with "continues": true first
\* if continues.
WireMembership(u, g, continues) ==
  LET ps == Key("parameters",
                Bytes("{") \o Key("userName", Str(u, Key("groupName", Str(g, Bytes("}"))))))
  IN  Bytes("{") \o (IF continues THEN Key("continues", Bytes("true") \o ps) ELSE ps)

Message ==
  [ServiceNotAvailable |-> WireError(errServiceNotAvailable),
   NoRecordFound |-> WireError(errNoRecordFound),
   NoRecordFoundContinues |-> WireErrorContinues(errNoRecordFound),
   BadService |-> WireError(userdbNamespace \o Bytes(".BadService")),
   \* {"groupName": "g", "gid": 1}
   GroupG |-> WireRecord(Key("groupName", Str(Bytes("g"), Key("gid", Bytes("1}"))))),
   \* {"groupName": "h", "binding": {"m": {"gid": 3}}}
   GroupHBound |->
     WireRecord(Key("groupName", Str(Bytes("h"),
       Key("binding", Bytes("{") \o Key("m", Bytes("{") \o Key("gid", Bytes("3}"))))))),
   \* {"userName": "u", "uid": 1, "gid": 2}
   UserU |->
     WireRecord(Key("userName", Str(Bytes("u"),
       Key("uid", Bytes("1") \o Key("gid", Bytes("2}")))))),
   \* {"userName": "u", "binding": {"m": {"uid": 3}}}
   UserUBound |->
     WireRecord(Key("userName", Str(Bytes("u"),
       Key("binding", Bytes("{") \o Key("m", Bytes("{") \o Key("uid", Bytes("3}"))))))),
   \* {"gid": 1}
   GroupNoName |-> WireRecord(Key("gid", Bytes("1}"))),
   \* {"groupName": "g"}
   GroupOnlyName |-> WireRecord(Key("groupName", Str(Bytes("g"), Bytes("}")))),
   \* {"uid": 1}
   UserNoName |-> WireRecord(Key("uid", Bytes("1}"))),
   \* {"userName": "u"}
   UserOnlyName |-> WireRecord(Key("userName", Str(Bytes("u"), Bytes("}")))),
   MemberOfG |-> WireMembership(Bytes("u"), Bytes("g"), TRUE),
   MemberOfH |-> WireMembership(Bytes("u"), Bytes("h"), FALSE),
   \* Plain JSON text, as systemd sends it.
   PlainNoRecordFound |->
     Bytes("{\"error\":\"io.systemd.UserDatabase.NoRecordFound\",\"parameters\":{}}"),
   PlainGroup |->
     Bytes("{\"parameters\":{\"record\":{\"groupName\":\"g\",\"gid\":1},\"incomplete\":false}}"),
   PlainUser |->
     Bytes("{\"parameters\":{\"record\":{\"userName\":\"u\",\"uid\":1,\"gid\":2,"
           \o "\"realName\":\"U\",\"homeDirectory\":\"/h\"},\"incomplete\":false}}"),
   \* A reply cut off behind a colon.
   Truncated |-> Bytes("{\"a\": ")]

\* resp.unmarshal(m) (line 238).  The replies of Message are unmarshaled
\* once and the result is looked up; any other message is unmarshaled here.
Unmarshaled == [k \in DOMAIN Message |-> userdbReplyUnmarshal(Message[k])]

unmarshal(m) ==
  IF \E k \in DOMAIN Message : Message[k] = m
    THEN Unmarshaled[CHOOSE k \in DOMAIN Message : Message[k] = m]
    ELSE userdbReplyUnmarshal(m)

(***************************************************************************)
(* bytes.Split(buf, []byte{0})                                             *)
(***************************************************************************)
\* The indices of the NUL bytes of buf, in increasing order.
nulPositions(buf) ==
  LET Z == {i \in 1..Len(buf) : buf[i] = 0}
  IN  [j \in 1..Cardinality(Z) |->
         CHOOSE z \in Z : Cardinality({y \in Z : y < z}) = j - 1]

splitMessages(buf) ==
  LET zs == nulPositions(buf)
      k  == Len(zs)
      lo(j) == IF j = 1 THEN 1 ELSE zs[j - 1] + 1
      hi(j) == IF j = k + 1 THEN Len(buf) ELSE zs[j] - 1
  IN  [j \in 1..(k + 1) |-> SubSeq(buf, lo(j), hi(j))]

(***************************************************************************)
(* The reply loop of userdbClient.query (lines 233-260): what query does    *)
(* with the response buffer resp once reading has stopped.                  *)
(* The outcome is                                                           *)
(*   kind = "return": query returns (handled, err) without the decoder,     *)
(*   kind = "decode": query returns (true, u.unmarshalParameters(params)),  *)
(*   kind = "panic":  a parse function panicked.                            *)
(* decoded is the number of messages that were unmarshaled.                 *)
(***************************************************************************)
QReturn(handled, err, decoded) ==
  [kind |-> "return", handled |-> handled, err |-> err, params |-> <<>>,
   decoded |-> decoded]

QDecode(params, decoded) ==
  [kind |-> "decode", handled |-> TRUE, err |-> NilError, params |-> params,
   decoded |-> decoded]

QPanic(decoded) ==
  [kind |-> "panic", handled |-> FALSE, err |-> NilError, params |-> <<>>,
   decoded |-> decoded]

afterAppendNext(continues) == "next"

\* What the loop does after a message without error (lines 253-257).
afterAppend(continues) == IF continues THEN "next" ELSE "break"

\* for _, m := range msgs, from message i on; replies[i] is what
\* resp.unmarshal(msgs[i]) yields (line 238).
RECURSIVE replyLoop(_, _, _)
replyLoop(replies, i, replyParams) ==
  IF i > Len(replies) THEN QDecode(replyParams, i - 1)
  ELSE
    LET resp == replies[i]
    IN  IF resp.perr = "panic" THEN QPanic(i)
        ELSE IF resp.perr # "none"
          THEN QReturn(TRUE, ParseError(resp.perr), i)
        ELSE IF resp.err = <<>>
          THEN IF afterAppend(resp.continues) = "next"
                 THEN replyLoop(replies, i + 1,
                                Append(replyParams, resp.parameters))
                 ELSE QDecode(Append(replyParams, resp.parameters), i)
        ELSE IF resp.err = errNoRecordFound
          THEN replyLoop(replies, i + 1, replyParams)
        ELSE IF resp.err = errServiceNotAvailable
          THEN QReturn(FALSE, NilError, i)
        ELSE QReturn(TRUE, NewError("userdb", resp.err), i)

\* The messages of the response buffer: the last byte is dropped and the
\* rest is split at the NUL bytes (lines 227-231).
messagesOf(resp) == splitMessages(SubSeq(resp, 1, Len(resp) - 1))

\* Lines 223-260.
processResponse(resp) ==
  IF Len(resp) = 0 THEN QReturn(TRUE, NilError, 0)
  ELSE LET msgs == messagesOf(resp)
       IN  replyLoop([i \in 1..Len(msgs) |-> unmarshal(msgs[i])], 1, <<>>)

(***************************************************************************)
(* Record field resolution: perMachineMatches, machineBoundRecord and the   *)
(* unmarshalParameters methods.  A decoder returns the error and the value  *)
(* of its receiver.                                                         *)
(***************************************************************************)
perMachineRecord(machineId, hostname) ==
  [machineId |-> machineId, hostname |-> hostname]

\* perMachineRecord{}
ZeroMachine == perMachineRecord(<<>>, <<>>)

\* Whether one entry of perMachine matches (lines 271-307).
perMachineMatch(p, per) ==
  LET mids == jsonObjectGet("[]string", per, Bytes("matchMachineId"))
      mid  == jsonObjectGet("string", per, Bytes("marchMachineId"))
      mhs  == jsonObjectGet("[]string", per, Bytes("matchHostname"))
      mh   == jsonObjectGet("string", per, Bytes("matchHostname"))
  IN  \/ mids.ok /\ \E i \in 1..Len(mids.v) : mids.v[i] = p.machineId
      \/ mid.ok /\ mid.v = p.machineId
      \/ mhs.ok /\ \E i \in 1..Len(mhs.v) : mhs.v[i] = p.hostname
      \/ mh.ok /\ mh.v = p.hostname

\* The loop over perMachine (lines 270-312): the matching entries, in order.
RECURSIVE perMachineSelect(_, _)
perMachineSelect(p, perMachine) ==
  IF perMachine = <<>> THEN <<>>
  ELSE (IF perMachineMatch(p, Head(perMachine)) THEN <<Head(perMachine)>>
                                                ELSE <<>>)
         \o perMachineSelect(p, Tail(perMachine))

perMachineMatches(p, obj) ==
  LET perMachine == jsonObjectGet("[]jsonObject", obj, Bytes("perMachine"))
  IN  IF perMachine.ok THEN perMachineSelect(p, perMachine.v) ELSE <<>>

machineBoundRecord(machineID, obj) ==
  LET binding == jsonObjectGet("jsonObject", obj, Bytes("binding"))
  IN  IF ~binding.ok THEN [ok |-> FALSE, v |-> <<>>]
      ELSE jsonObjectGet("jsonObject", binding.v, machineID)

\* "if x, ok := jsonObjectGet[T](obj, key); ok { field = x }"
override(T, obj, key, old) ==
  LET x == jsonObjectGet(T, obj, Bytes(key)) IN IF x.ok THEN x.v ELSE old

\* The same over the matches of perMachineMatches, in order.
RECURSIVE overrideAll(_, _, _, _)
overrideAll(T, matches, key, old) ==
  IF matches = <<>> THEN old
  ELSE overrideAll(T, Tail(matches), key, override(T, Head(matches), key, old))

\* The three assignments to one field of a record g, in the order of the
\* decoders: from the base record, from every perMachine match, from the
\* machine bound record.
resolveField(T, g, record, key, zero) ==
  LET base    == override(T, record, key, zero)
      matched == overrideAll(T, perMachineMatches(g.perMachineRecord, record),
                             key, base)
      rec     == machineBoundRecord(g.perMachineRecord.machineId, record)
  IN  IF rec.ok THEN override(T, rec.v, key, matched) ELSE matched

identifyingFieldAlwaysOk(field) == TRUE

\* "groupName, ok := jsonObjectGet[string](record, "groupName")": the ok that
\* the decoders test for their identifying field (lines 346-349, 407-410).
identifyingFieldOk(field) == field.ok

\* groupRecord{perMachineRecord: p}
groupRecord(p) ==
  [perMachineRecord |-> p, groupName |-> <<>>, gid |-> Int64Zero]

groupRecordUnmarshalParameters(g, params) ==
  IF Len(params) # 1
    THEN [err |-> NewError("decode", Bytes("unexpected userdb reply")), rec |-> g]
  ELSE
    LET record    == jsonObjectGet("jsonObject", params[1], Bytes("record"))
        groupName == jsonObjectGet("string", record.v, Bytes("groupName"))
    IN  IF ~record.ok
          THEN [err |-> NewError("decode",
                          Bytes("missing or invalid record in userdb reply")),
                rec |-> g]
        ELSE IF ~identifyingFieldOk(groupName)
          THEN [err |-> NewError("decode",
                          Bytes("missing or invalid groupName in userdb reply")),
                rec |-> g]
        ELSE [err |-> NilError,
              rec |-> [g EXCEPT
                         !.groupName = groupName.v,
                         !.gid = resolveField("int64", g, record.v, "gid", g.gid)]]

\* userRecord{perMachineRecord: p}
userRecord(p) ==
  [perMachineRecord |-> p, userName |-> <<>>, realName |-> <<>>,
   uid |-> Int64Zero, gid |-> Int64Zero, homeDirectory |-> <<>>]

userRecordUnmarshalParameters(u, params) ==
  IF Len(params) # 1
    THEN [err |-> NewError("decode", Bytes("unexpected userdb reply")), rec |-> u]
  ELSE
    LET record   == jsonObjectGet("jsonObject", params[1], Bytes("record"))
        userName == jsonObjectGet("string", record.v, Bytes("userName"))
    IN  IF ~record.ok
          THEN [err |-> NewError("decode",
                          Bytes("missing or invalid record in userdb reply")),
                rec |-> u]
        ELSE IF ~identifyingFieldOk(userName)
          THEN [err |-> NewError("decode",
                          Bytes("missing or invalid userName in userdb reply")),
                rec |-> u]
        ELSE [err |-> NilError,
              rec |-> [u EXCEPT
                 !.userName = userName.v,
                 !.realName =
                    resolveField("string", u, record.v, "realName", u.realName),
                 !.uid = resolveField("int64", u, record.v, "uid", u.uid),
                 !.gid = resolveField("int64", u, record.v, "gid", u.gid),
                 !.homeDirectory =
                    resolveField("string", u, record.v, "homeDirectory",
                                 u.homeDirectory)]]

\* memberships{}: groupUsers is a nil map.
NilMemberships == [groupUsers |-> <<>>]

\* The loop of memberships.unmarshalParameters from parameter object i on.
RECURSIVE membershipsLoop(_, _, _)
membershipsLoop(params, i, groupUsers) ==
  IF i > Len(params) THEN [err |-> NilError, rec |-> [groupUsers |-> groupUsers]]
  ELSE
    LET userName  == jsonObjectGet("string", params[i], Bytes("userName"))
        groupName == jsonObjectGet("string", params[i], Bytes("groupName"))
    IN  IF ~userName.ok
          THEN [err |-> NewError("decode",
                          Bytes("missing or invalid userName in userdb reply")),
                rec |-> [groupUsers |-> groupUsers]]
        ELSE IF ~groupName.ok
          THEN [err |-> NewError("decode",
                          Bytes("missing or invalid groupName in userdb reply")),
                rec |-> [groupUsers |-> groupUsers]]
        ELSE membershipsLoop(params, i + 1,
               IF groupName.v \in DOMAIN groupUsers
                 THEN [groupUsers EXCEPT ![groupName.v] = @ \cup {userName.v}]
                 ELSE (groupName.v :> {userName.v}) @@ groupUsers)

membershipsUnmarshalParameters(m, params) == membershipsLoop(params, 1, <<>>)

(***************************************************************************)
(* The lookups: what queryGroupDb, queryUserDb and lookupGroupIds make of   *)
(* the (handled, error) pair that query returns.                            *)
(***************************************************************************)
\* A nil *Group, *User or []string.
NoValue == [kind |-> "nil"]

Group(name, gid) == [kind |-> "Group", Name |-> name, Gid |-> gid]

User(uid, gid, username, name, homeDir) ==
  [kind |-> "User", Uid |-> uid, Gid |-> gid, Username |-> username,
   Name |-> name, HomeDir |-> homeDir]

GroupIds(gids) == [kind |-> "gids", gids |-> gids]

\* The three return values of a lookup.
Result(value, handled, err) ==
  [value |-> value, handled |-> handled, err |-> err]

\* if ok, err := cl.query(...); !ok || err != nil
queryFailedNever(ok, err) == FALSE

\* !ok || err != nil
queryFailed(ok, err) == ~ok \/ err # NilError

\* queryGroupDb after query has returned (lines 378-384).
queryGroupDbResult(ok, err, group) ==
  IF queryFailed(ok, err)
    THEN Result(NoValue, ok,
                Errorf("error querying systemd-userdb group record", err))
    ELSE Result(Group(group.groupName, FormatInt(group.gid)), TRUE, NilError)

\* queryUserDb after query has returned (lines 470-479).
queryUserDbResult(ok, err, user) ==
  IF queryFailed(ok, err)
    THEN Result(NoValue, ok,
                Errorf("error querying systemd-userdb user record", err))
    ELSE Result(User(FormatInt(user.uid), FormatInt(user.gid), user.userName,
                     user.realName, user.homeDirectory),
                TRUE, NilError)

\* The failure returns of lookupGroupIds (lines 545, 555, 565).
lookupGroupIdsFailure(stage, ok, err) ==
  CASE stage = "memberships" ->
         Result(NoValue, ok,
                Errorf("error querying systemd-userdb memberships record", err))
    [] stage = "primary" -> Result(NoValue, ok, err)
    [] stage = "groups" ->
         Result(NoValue, ok,
                Errorf("error querying systemd-userdb group record", err))

(***************************************************************************)
(* Bounds of the model.                                                    *)
(***************************************************************************)
\* The most messages the peer sends in reply to one call.
MaxMsgs == 2

\* The most short writes the kernel makes of one request.
MaxShortWrites == 1

\* The size of the read buffer of query (line 209).
ReadBufSize == 4096

(***************************************************************************)
(* The inputs: the identity of the client, the lookups and their arguments, *)
(* and the replies a peer may send to a call of each method.                *)
(***************************************************************************)
\* getMachineRecord: the identity of the host.
Machine == perMachineRecord(Bytes("m"), Bytes("host"))

\* The userdbClient that getUserdbClient returns.
userdbClient(p) == [perMachineRecord |-> p, serviceSocket |-> userdbMuxSocket]

Lookups ==
  {[name |-> "lookupGroup", arg |-> Bytes("g")],
   [name |-> "lookupGroupId", arg |-> Bytes("1")],
   [name |-> "lookupGroupId", arg |-> Bytes("x")],
   [name |-> "lookupUser", arg |-> Bytes("u")],
   [name |-> "lookupUserId", arg |-> Bytes("1")],
   [name |-> "lookupUserId", arg |-> Bytes("1x")],
   [name |-> "lookupUserId", arg |-> Bytes("9223372036854775808")],
   [name |-> "lookupGroupIds", arg |-> Bytes("u")]}

Replies(method) ==
  CASE method = mGetGroupRecord ->
         {"GroupG", "GroupHBound", "NoRecordFound", "ServiceNotAvailable",
          "BadService", "PlainGroup", "GroupNoName", "GroupOnlyName"}
    [] method = mGetUserRecord ->
         {"UserU", "UserUBound", "NoRecordFound", "ServiceNotAvailable",
          "PlainNoRecordFound", "PlainUser", "Truncated", "UserNoName",
          "UserOnlyName"}
    [] method = mGetMemberships ->
         {"MemberOfG", "MemberOfH", "NoRecordFound", "NoRecordFoundContinues",
          "ServiceNotAvailable", "Truncated"}

(***************************************************************************)
(* State.                                                                  *)
(***************************************************************************)
VARIABLES
  cl,          \* the userdbClient
  op,          \* the lookup in progress: [name, arg]
  pc,          \* where the lookup is: idle, the steps of query, done, panic
  ctxDone,     \* the deadline of the caller's context has passed
  stage,       \* lookupGroupIds: memberships, primary, groups
  call,        \* query: the userdbCall
  decoder,     \* query: the kind of u: group, user, memberships
  request,     \* query: the request bytes
  written,     \* query: bytes of request written
  shortWrites, \* short writes of the request while it is being written
  sock,        \* query: sockFd is none, open, closed, closed twice
  sent,        \* peer: the number of messages it has sent in reply
  peerClosed,  \* peer: it has closed the connection
  wire,        \* bytes sent by the peer and not yet read
  resp,        \* query: the response buffer
  ms,          \* lookupGroupIds: the memberships
  gids,        \* lookupGroupIds: the gids collected
  todo,        \* lookupGroupIds: group names of ms not yet ranged over
  result,      \* the return values of the lookup
  checked,     \* query: ctx.Err() was nil at the top of this loop iteration
  timedOut,    \* query: a check of ctx.Err() found the deadline passed
  ios,         \* query: its write and read calls on the socket so far
  last,        \* the last return of query: (handled, err), the value of the
               \* decoder, whether and on what the decoder was invoked, the
               \* number of messages unmarshaled, the response buffer
  streamed,    \* lookupGroupIds: the group names of the messages the peer
               \* sent in reply to GetMemberships, and whether the last of
               \* them announces another
  asked,       \* lookupGroupIds: the group names of its GetGroupRecord calls,
               \* in the order of gids
  input,       \* the byte sequence handed to a parse function
  parsed       \* the parse function applied to input and what it returned

\* The state of the client, of its peer and of the caller's context.
queryVars ==
  <<cl, op, pc, ctxDone, stage, call, decoder, request, written, shortWrites,
    sock, sent, peerClosed, wire, resp, ms, gids, todo, result, checked,
    timedOut, ios, last, streamed, asked>>

vars == <<queryVars, input, parsed>>

NoCall == userdbCall(<<>>, callParameters(NilInt, <<>>, NilInt, <<>>), FALSE)

NoResult == Result(NoValue, FALSE, NilError)

\* No query has returned yet.
NoLast ==
  [returned |-> FALSE, handled |-> FALSE, err |-> NilError, invoked |-> FALSE,
   params |-> <<>>, decoded |-> 0, rec |-> NoValue, resp |-> <<>>]

\* No parse function has been applied.
NoParse == [fn |-> "", res |-> PErr("", 0)]

\* No lookup has been called.
Idle ==
  /\ cl = userdbClient(Machine)
  /\ op = [name |-> "", arg |-> <<>>]
  /\ pc = "idle"
  /\ ctxDone = FALSE
  /\ stage = ""
  /\ call = NoCall
  /\ decoder = ""
  /\ request = <<>>
  /\ written = 0
  /\ shortWrites = 0
  /\ sock = "none"
  /\ sent = 0
  /\ peerClosed = FALSE
  /\ wire = <<>>
  /\ resp = <<>>
  /\ ms = NilMemberships
  /\ gids = <<>>
  /\ todo = {}
  /\ result = NoResult
  /\ checked = FALSE
  /\ timedOut = FALSE
  /\ ios = 0
  /\ last = NoLast
  /\ streamed = [groups |-> {}, more |-> FALSE]
  /\ asked = <<>>

Init ==
  /\ Idle
  /\ input = <<>>
  /\ parsed = NoParse

(***************************************************************************)
(* The return of query and what the lookup does with it.                    *)
(***************************************************************************)
\* The value of the decoder before query is called: groupRecord{},
\* userRecord{} (lines 373, 461), var group groupRecord, var ms memberships
\* (lines 538, 549, 561).
zeroDecoder(d) ==
  CASE d = "group" -> groupRecord(ZeroMachine)
    [] d = "user" -> userRecord(ZeroMachine)
    [] d = "memberships" -> NilMemberships

\* u.unmarshalParameters(replyParams) (line 260).
unmarshalParameters(d, params) ==
  CASE d = "group" ->
         groupRecordUnmarshalParameters(zeroDecoder(d), params)
    [] d = "user" ->
         userRecordUnmarshalParameters(zeroDecoder(d), params)
    [] d = "memberships" ->
         membershipsUnmarshalParameters(zeroDecoder(d), params)

\* query starts: request := call.marshalJSON() (line 167).
BeginQuery(c, d, st) ==
  /\ call' = c
  /\ decoder' = d
  /\ stage' = st
  /\ request' = userdbCallMarshalJSON(c)
  /\ written' = 0
  /\ shortWrites' = 0
  /\ sock' = "none"
  /\ sent' = 0
  /\ peerClosed' = FALSE
  /\ wire' = <<>>
  /\ resp' = <<>>
  /\ checked' = FALSE
  /\ ios' = 0
  /\ last' = NoLast
  /\ pc' = "socket"

\* syscall.Close(sockFd) on a descriptor in state s.
Close(s) ==
  CASE s = "open" -> "closed"
    [] s = "closed" -> "closed twice"
    [] OTHER -> s

deferredCloseNever(s) == s

\* "defer syscall.Close(sockFd)" (line 173): when query returns or panics,
\* the socket is closed if the defer statement was reached, that is if
\* Socket had succeeded.
deferredClose(s) == IF s = "none" THEN s ELSE Close(s)

\* query returns (ok, err) without having invoked the decoder; the deferred
\* Close runs if the socket was created (line 173).
QueryReturn(ok, err) ==
  /\ last' = [returned |-> TRUE, handled |-> ok, err |-> err,
              invoked |-> FALSE, params |-> <<>>, decoded |-> 0,
              rec |-> zeroDecoder(decoder), resp |-> resp]
  /\ sock' = deferredClose(sock)
  /\ pc' = "returned"

\* The lookup returns.
Finish(r) ==
  /\ result' = r
  /\ pc' = "done"
  /\ UNCHANGED <<call, decoder, stage, request, written, shortWrites, sock,
                 sent, peerClosed, wire, resp, checked, ios, last>>

groupCall(gid, groupName) ==
  userdbCall(mGetGroupRecord, callParameters(NilInt, <<>>, gid, groupName),
             FALSE)

userCall(uid, userName) ==
  userdbCall(mGetUserRecord, callParameters(uid, userName, NilInt, <<>>),
             FALSE)

membershipsCall(userName) ==
  userdbCall(mGetMemberships, callParameters(NilInt, userName, NilInt, <<>>),
             TRUE)

\* strconv.ParseInt failed: *NumError.
NumError(e, s) ==
  NewError("strconv",
           Bytes("strconv.ParseInt: parsing \"") \o s \o Bytes("\": ")
           \o (IF e = "range" THEN Bytes("value out of range")
                              ELSE Bytes("invalid syntax")))

(***************************************************************************)
(* Actions.                                                                *)
(***************************************************************************)
idParseFailedNever(id) == FALSE

\* if err != nil, after strconv.ParseInt(id, 10, 64) (lines 487, 499).
idParseFailed(id) == id.err # "none"

\* A lookup is called (lines 482-504, 536-544).
Start(l) ==
  /\ pc = "idle"
  /\ op' = l
  /\ LET id == ParseInt(l.arg)
     IN  CASE l.name = "lookupGroup" ->
                /\ BeginQuery(groupCall(NilInt, l.arg), "group", "")
                /\ result' = result
           [] l.name = "lookupUser" ->
                /\ BeginQuery(userCall(NilInt, l.arg), "user", "")
                /\ result' = result
           [] l.name = "lookupGroupIds" ->
                /\ BeginQuery(membershipsCall(l.arg), "memberships",
                              "memberships")
                /\ result' = result
           [] l.name = "lookupGroupId" ->
                IF idParseFailed(id)
                  THEN Finish(Result(NoValue, TRUE, NumError(id.err, l.arg)))
                  ELSE /\ BeginQuery(groupCall(PtrInt(id.v), <<>>), "group", "")
                       /\ result' = result
           [] l.name = "lookupUserId" ->
                IF idParseFailed(id)
                  THEN Finish(Result(NoValue, TRUE, NumError(id.err, l.arg)))
                  ELSE /\ BeginQuery(userCall(PtrInt(id.v), <<>>), "user", "")
                       /\ result' = result
  /\ UNCHANGED <<input, parsed, streamed, asked, cl, ctxDone, ms, gids, todo, timedOut>>

\* The deadline of the caller's context passes; query looks at it in its
\* write loop and in its read loop only.
Expire ==
  /\ ~ctxDone
  /\ pc \in {"writeCheck", "write", "readCheck", "read"}
  /\ ctxDone' = TRUE
  /\ UNCHANGED <<input, parsed, streamed, asked, cl, op, pc, stage, call, decoder, request, written,
                 shortWrites, sock, sent, peerClosed, wire,
                 resp, ms, gids, todo, result, checked, timedOut, ios, last>>

\* syscall.Socket (lines 169-173).
Socket ==
  /\ pc = "socket"
  /\ \/ /\ sock' = "open"
        /\ pc' = "connect"
        /\ last' = last
     \/ QueryReturn(FALSE, EMFILE)
  /\ UNCHANGED <<input, parsed, streamed, asked, cl, op, ctxDone, stage, call, decoder, request, written,
                 shortWrites, sent, peerClosed, wire, resp, ms,
                 gids, todo, result, checked, timedOut, ios>>

handledOnConnectErrorAlways(err) == TRUE

\* The first return value when Connect has failed with err: false only if
\* errors.Is(err, os.ErrNotExist) (lines 176-180).
handledOnConnectError(err) == err # ENOENT

\* syscall.Connect and the null termination of the request (lines 175-186).
Connect ==
  /\ pc = "connect"
  /\ \/ /\ request' = nullTerminate(request)
        /\ pc' = "writeCheck"
        /\ UNCHANGED <<sock, last>>
     \/ /\ \E e \in {ENOENT, ECONNREFUSED} :
             QueryReturn(handledOnConnectError(e), e)
        /\ request' = request
  /\ UNCHANGED <<input, parsed, streamed, asked, cl, op, ctxDone, stage, call, decoder, written, shortWrites,
                 sent, peerClosed, wire, resp, ms, gids, todo, result, checked,
                 timedOut, ios>>

afterCheckGoOn(expired) == "go on"

\* What query does after ctx.Err() (lines 191-193, 205-207).
afterCheck(expired) == IF expired THEN "return" ELSE "go on"

\* The check of the deadline at the top of an iteration of the write loop
\* (at = "writeCheck") or of the read loop (at = "readCheck").
Check(at, then) ==
  /\ pc = at
  /\ timedOut' = (timedOut \/ ctxDone)
  /\ IF afterCheck(ctxDone) = "return"
       THEN /\ QueryReturn(TRUE, DeadlineExceeded)
            /\ checked' = FALSE
       ELSE /\ pc' = then
            /\ checked' = TRUE
            /\ UNCHANGED <<sock, last>>
  /\ UNCHANGED <<input, parsed, streamed, asked, cl, op, ctxDone, stage, call, decoder, request, written,
                 shortWrites, sent, peerClosed, wire, resp, ms,
                 gids, todo, result, ios>>

WriteCheck == Check("writeCheck", "write")

ReadCheck == Check("readCheck", "read")

\* syscall.Write(sockFd, request[written:]) (lines 195-199): the kernel
\* takes all that is left or, a bounded number of times, part of it.
Write ==
  /\ pc = "write"
  /\ ios' = ios + 1
  /\ checked' = FALSE
  /\ LET left == Len(request) - written
     IN  \/ /\ \E n \in {left} \cup (IF shortWrites < MaxShortWrites /\ left > 1
                                       THEN {left \div 2} ELSE {}) :
                 /\ written' = written + n
                 /\ shortWrites' = IF n < left THEN shortWrites + 1 ELSE 0
                 /\ pc' = IF written + n < Len(request) THEN "writeCheck"
                                                        ELSE "readCheck"
            /\ UNCHANGED <<sock, last>>
         \/ /\ QueryReturn(TRUE, EPIPE)
            /\ UNCHANGED <<written, shortWrites>>
  /\ UNCHANGED <<input, parsed, streamed, asked, cl, op, ctxDone, stage, call, decoder, request, sent,
                 peerClosed, wire, resp, ms, gids, todo, result,
                 timedOut>>

\* What the peer streams with message k: the group of a membership message,
\* and whether the message announces another one (continues).
GroupOf(k) ==
  CASE k = "MemberOfG" -> {Bytes("g")}
    [] k = "MemberOfH" -> {Bytes("h")}
    [] OTHER -> {}

Continues(k) == k \in {"MemberOfG", "NoRecordFoundContinues"}

\* The stream of the GetMemberships reply after message k.
streamAfter(k) ==
  IF stage = "memberships" /\ (sent = 0 \/ streamed.more)
    THEN [groups |-> streamed.groups \cup GroupOf(k), more |-> Continues(k)]
    ELSE streamed

\* The peer, once it has the request, sends a message of its choice,
\* NUL-terminated.  It does not know when the client reads: a message that
\* it has announced may follow when the client has left its read loop.
PeerSend ==
  /\ \/ pc \in {"readCheck", "read"}
     \/ pc = "process" /\ stage = "memberships" /\ sent > 0 /\ streamed.more
  /\ ~peerClosed
  /\ sent < MaxMsgs
  /\ \E k \in Replies(call.method) :
       /\ wire' = wire \o Message[k] \o <<0>>
       /\ streamed' = streamAfter(k)
  /\ sent' = sent + 1
  /\ UNCHANGED <<input, parsed, asked, cl, op, pc, ctxDone, stage, call, decoder, request, written,
                 shortWrites, sock, peerClosed, resp, ms, gids, todo, result,
                 checked, timedOut, ios, last>>

\* The peer closes the connection; the client sees it once it has read the
\* bytes sent before.
PeerClose ==
  /\ pc \in {"readCheck", "read"}
  /\ ~peerClosed
  /\ wire = <<>>
  /\ peerClosed' = TRUE
  /\ UNCHANGED <<input, parsed, streamed, asked, cl, op, pc, ctxDone, stage, call, decoder, request, written,
                 shortWrites, sock, sent, wire, resp, ms, gids, todo, result,
                 checked, timedOut, ios, last>>

\* syscall.Read(sockFd, buf) on the blocking socket (lines 209-220): it
\* returns once bytes are there or the peer has closed.
Read ==
  /\ pc = "read"
  /\ wire # <<>> \/ peerClosed
  /\ ios' = ios + 1
  /\ checked' = FALSE
  /\ IF wire # <<>>
       THEN LET n == Min(Len(wire), ReadBufSize)
            IN  /\ resp' = resp \o SubSeq(wire, 1, n)
                /\ wire' = SubSeq(wire, n + 1, Len(wire))
                /\ pc' = IF wire[n] = 0 THEN "process" ELSE "readCheck"
                /\ UNCHANGED <<sock, last>>
       ELSE \/ /\ pc' = "process"
               /\ UNCHANGED <<sock, last, resp, wire>>
            \/ /\ QueryReturn(TRUE, ECONNRESET)
               /\ UNCHANGED <<resp, wire>>
  /\ UNCHANGED <<input, parsed, streamed, asked, cl, op, ctxDone, stage, call, decoder, request, written,
                 shortWrites, sent, peerClosed, ms, gids, todo,
                 result, timedOut>>

\* What query returns when the reply loop has ended with out (line 260 and
\* the returns of lines 239-250); returned is FALSE if it panicked.
returnOf(out, d, buf) ==
  IF out.kind = "decode"
    THEN (LET dec == unmarshalParameters(d, out.params)
          IN  [returned |-> TRUE, handled |-> TRUE, err |-> dec.err,
               invoked |-> TRUE, params |-> out.params,
               decoded |-> out.decoded, rec |-> dec.rec, resp |-> buf])
    ELSE [returned |-> out.kind = "return", handled |-> out.handled,
          err |-> out.err, invoked |-> FALSE, params |-> <<>>,
          decoded |-> out.decoded, rec |-> zeroDecoder(d), resp |-> buf]

\* The response is split, unmarshaled and decoded, and query returns
\* (lines 223-260); a panic of a parse function ends the program.
Process ==
  /\ pc = "process"
  /\ \E out \in {processResponse(resp)} : last' = returnOf(out, decoder, resp)
  /\ pc' = IF last'.returned THEN "returned" ELSE "panic"
  /\ sock' = deferredClose(sock)
  /\ UNCHANGED <<input, parsed, streamed, asked, cl, op, ctxDone, stage, call, decoder, request, written,
                 shortWrites, sent, peerClosed, wire, resp, ms, gids, todo,
                 result, checked, timedOut, ios>>

\* The lookup after query has returned (lines 378-384, 470-479, 544-569).
AfterQuery ==
  /\ pc = "returned"
  /\ LET ok  == last.handled
         err == last.err
         rec == last.rec
     IN  CASE op.name \in {"lookupGroup", "lookupGroupId"} ->
                /\ Finish(queryGroupDbResult(ok, err, rec))
                /\ UNCHANGED <<ms, gids, todo, streamed, asked>>
           [] op.name \in {"lookupUser", "lookupUserId"} ->
                /\ Finish(queryUserDbResult(ok, err, rec))
                /\ UNCHANGED <<ms, gids, todo, streamed, asked>>
           [] op.name = "lookupGroupIds" /\ queryFailed(ok, err) ->
                /\ Finish(lookupGroupIdsFailure(stage, ok, err))
                /\ UNCHANGED <<ms, gids, todo, streamed, asked>>
           [] op.name = "lookupGroupIds" /\ ~queryFailed(ok, err)
                /\ stage = "memberships" ->
                /\ ms' = rec
                /\ streamed' = streamed
                /\ asked' = <<op.arg>>
                /\ BeginQuery(groupCall(NilInt, op.arg), "group", "primary")
                /\ UNCHANGED <<gids, todo, result>>
           [] op.name = "lookupGroupIds" /\ ~queryFailed(ok, err)
                /\ stage \in {"primary", "groups"} ->
                LET gs   == Append(gids, FormatInt(rec.gid))
                    left == IF stage = "primary" THEN DOMAIN ms.groupUsers
                                                 ELSE todo
                IN  /\ gids' = gs
                    /\ ms' = ms
                    /\ streamed' = streamed
                    /\ IF left = {}
                         THEN /\ todo' = left
                              /\ asked' = asked
                              /\ Finish(Result(GroupIds(gs), TRUE, NilError))
                         ELSE \E g \in left :
                                /\ todo' = left \ {g}
                                /\ asked' = Append(asked, g)
                                /\ BeginQuery(groupCall(NilInt, g), "group",
                                              "groups")
                                /\ result' = result
  /\ UNCHANGED <<input, parsed, cl, op, ctxDone, timedOut>>

Next ==
  \/ \E l \in Lookups : Start(l)
  \/ Expire
  \/ Socket
  \/ Connect
  \/ WriteCheck
  \/ Write
  \/ PeerSend
  \/ PeerClose
  \/ ReadCheck
  \/ Read
  \/ Process
  \/ AfterQuery

Spec == Init /\ [][Next]_vars

\* The steps of the client.
Client ==
  \/ Socket
  \/ Connect
  \/ WriteCheck
  \/ Write
  \/ ReadCheck
  \/ Read
  \/ Process
  \/ AfterQuery

\* The client runs whenever it can; the peer and the deadline owe nothing.
FairSpec == Spec /\ WF_vars(Client)

(***************************************************************************)
(* The parse functions on their own: a caller hands a byte sequence to one  *)
(* of them (userdbclientjson_linux_test.go does so with its test tables and *)
(* its fuzz inputs).                                                        *)
(***************************************************************************)
\* The longest input made of InputBytes.
MaxInputLen == 3

InputBytes == Bytes("{}[]\":, 1a")

ShortInputs == UNION {[1..n -> Range(InputBytes)] : n \in 0..MaxInputLen}

\* Inputs of the tests of the parse functions, numbers of 19 digits and
\* more, and strings around the size limit of parseJSONString.
NamedInputs ==
  {Bytes("{\"foo\": \"bar\"}"),
   Bytes("{\"test\": [1, 2, 3]} "),
   Bytes("{\"a\": "),
   Bytes("[1, 2, 3]"),
   Bytes("{\"a\":1,\"b\":2}"),
   Bytes("[1 2]"),
   Bytes("\"\\uD800\\uDC00\""),
   Bytes("\"\\uD83D\\uDE00\""),
   Bytes("\"\\uD800\""),
   Bytes("\"\\uD800ab\""),
   Bytes("\"\\uD800abcdefg\""),
   Bytes("\"\\uD800\\u0041\""),
   Bytes("\"\\uD800\\n\""),
   Bytes("\"\\u0061a\""),
   Bytes("true"),
   Bytes("false"),
   Bytes("1234 rest"),
   Bytes("9223372036854775807"),
   Bytes("9223372036854775808"),
   Bytes("1234567890123456789,"),
   Bytes("12345678901234567890"),
   Bytes("12345678901234567890}"),
   Bytes("00000000000000000001"),
   Bytes("000000000000000000001"),
   <<34>> \o Repeat(Bytes("a"), MaxStringLen) \o <<34>>,
   <<34>> \o Repeat(Bytes("a"), MaxStringLen + 1) \o <<34>>,
   <<34>> \o Repeat(Bytes("\\n"), MaxStringLen + 1) \o <<34>>,
   <<34>> \o Repeat(Bytes("\\u0041"), MaxStringLen + 1) \o <<34>>,
   <<34>> \o Repeat(Bytes("a"), MaxStringLen) \o Bytes("\\u20AC") \o <<34>>}

Inputs == ShortInputs \cup NamedInputs

ParserInit ==
  /\ Idle
  /\ input \in Inputs
  /\ parsed = NoParse

\* A parse function named fn is applied to the input and returns res.
Apply(fn, res) ==
  /\ parsed = NoParse
  /\ parsed' = [fn |-> fn, res |-> res]
  /\ UNCHANGED <<queryVars, input>>

ParseElement == Apply("parseJSONElement", parseJSONElement(input, 0))

ParseObject == Apply("parseJSONObject", parseJSONObject(input, 0))

ParseArray == Apply("parseJSONArray", parseJSONArray(input, 0))

ParseString == Apply("parseJSONString", parseJSONString(input, 0))

ParseInt64 == Apply("parseJSONInt64", parseJSONInt64(input, 0))

ParseBoolean == Apply("parseJSONBoolean", parseJSONBoolean(input, 0))

FindElementStart == Apply("findElementStart", findElementStart(input, 0))

ParserNext ==
  \/ ParseElement
  \/ ParseObject
  \/ ParseArray
  \/ ParseString
  \/ ParseInt64
  \/ ParseBoolean
  \/ FindElementStart

ParserSpec == ParserInit /\ [][ParserNext]_vars

(***************************************************************************)
(* perMachineMatches as a function of a decoded record: input is the pair  *)
(* of the caller's identity and the record.  A jsonObject is a             *)
(* map[string]any, so a member may hold a []jsonObject or []string as well *)
(* as the []any that parseJSONArray builds.                                *)
(***************************************************************************)
VObjects(a) == [t |-> "[]jsonObject", v |-> a]

VStrings(a) == [t |-> "[]string", v |-> a]

\* The caller's identity.
Caller == perMachineRecord(Bytes("m"), Bytes("host"))

\* The forms of a match field: absent, a single string or an array of
\* strings, naming hit or only miss.
MatchForms ==
  {"absent", "string hit", "string miss", "[]string hit", "[]string miss",
   "[]any hit"}

MatchMember(key, form, hit, miss) ==
  CASE form = "absent" -> EmptyObject
    [] form = "string hit" -> Bytes(key) :> VString(hit)
    [] form = "string miss" -> Bytes(key) :> VString(miss)
    [] form = "[]string hit" -> Bytes(key) :> VStrings(<<miss, hit>>)
    [] form = "[]string miss" -> Bytes(key) :> VStrings(<<miss>>)
    [] form = "[]any hit" -> Bytes(key) :> VArray(<<VString(hit)>>)

\* An entry of perMachine: it names a machine id, a hostname, both or
\* neither.
PerMachineEntry(mid, host) ==
  MatchMember("matchMachineId", mid, Bytes("m"), Bytes("x"))
    @@ MatchMember("matchHostname", host, Bytes("host"), Bytes("y"))

\* An entry that matches the caller by hostname.
HostEntry == PerMachineEntry("absent", "string hit")

\* How the record holds its entries.
PerMachineForms == {"absent", "[]jsonObject", "[]jsonObject two", "[]any"}

RecordOf(form, e) ==
  CASE form = "absent" -> EmptyObject
    [] form = "[]jsonObject" -> Bytes("perMachine") :> VObjects(<<e>>)
    [] form = "[]jsonObject two" ->
         Bytes("perMachine") :> VObjects(<<e, HostEntry>>)
    [] form = "[]any" -> Bytes("perMachine") :> VArray(<<VObject(e)>>)

MatchInit ==
  /\ Idle
  /\ \E form \in PerMachineForms, mid \in MatchForms, host \in MatchForms :
       input = [p |-> Caller, obj |-> RecordOf(form, PerMachineEntry(mid, host))]
  /\ parsed = NoParse

PerMachineMatches ==
  Apply("perMachineMatches", POk(perMachineMatches(input.p, input.obj), 0))

MatchSpec == MatchInit /\ [][PerMachineMatches]_vars

(***************************************************************************)
(* Properties.                                                             *)
(***************************************************************************)
\* The errors of the system calls and of the context.
SyscallErrors ==
  {EMFILE, ENOENT, ECONNREFUSED, EPIPE, ECONNRESET, DeadlineExceeded}

\* query has read a response and gone through it: it has returned or
\* panicked in the reply loop.
Replied ==
  /\ pc \in {"returned", "done", "panic"}
  /\ last.returned \/ pc = "panic"
  /\ last.err \notin SyscallErrors

\* The messages of the response last gone through, unmarshaled.
LastReplies ==
  IF last.resp = <<>> THEN <<>>
  ELSE LET msgs == messagesOf(last.resp)
       IN  [i \in 1..Len(msgs) |-> unmarshal(msgs[i])]

IsGroupLookup == op.name \in {"lookupGroup", "lookupGroupId"}

IsUserLookup == op.name \in {"lookupUser", "lookupUserId"}

\* C1: if a reply message processed during a lookup carries the error
\* io.systemd.UserDatabase.ServiceNotAvailable, the lookup returns
\* handled=false with a nil error and no record.
C1_ServiceNotAvailable ==
  (/\ pc = "done"
   /\ Replied
   /\ \E i \in 1..last.decoded :
        /\ LastReplies[i].perr = "none"
        /\ LastReplies[i].err = errServiceNotAvailable)
  => /\ result.handled = FALSE
     /\ result.err = NilError
     /\ result.value = NoValue

\* s ends with t.
IsSuffix(t, s) ==
  Len(t) <= Len(s) /\ SubSeq(s, Len(s) - Len(t) + 1, Len(s)) = t

\* C2: if Connect fails because the socket path does not exist, query and
\* the lookup return handled=false; if it fails for another reason they
\* return handled=true with the underlying error.
C2_ConnectFailure ==
  /\ (pc \in {"returned", "done"} /\ last.err = ENOENT)
       => /\ last.handled = FALSE
          /\ pc = "done" => result.handled = FALSE /\ result.value = NoValue
  /\ (pc \in {"returned", "done"} /\ last.err = ECONNREFUSED)
       => /\ last.handled = TRUE
          /\ pc = "done" =>
               /\ result.handled = TRUE
               /\ result.value = NoValue
               /\ result.err # NilError
               /\ IsSuffix(ECONNREFUSED.text, result.err.text)

C2_Witness ==
  /\ pc = "done"
  /\ op.name = "lookupGroupIds"
  /\ stage = "groups"
  /\ last.err = ECONNREFUSED
  /\ result.handled

\* C3: a group or user lookup whose reply consists only of a
\* NoRecordFound message returns handled=true with no error; the code is
\* never surfaced as an error.
C3_NoRecordFoundOnly ==
  (/\ pc = "done"
   /\ IsGroupLookup \/ IsUserLookup
   /\ Replied
   /\ last.resp = Message.NoRecordFound \o <<0>>)
  => /\ result.handled = TRUE
     /\ result.err = NilError

\* C4: when the peer closes the connection without sending a byte, query
\* returns handled=true with no error without invoking the decoder, and the
\* lookup produces no record.
C4_EmptyResponse ==
  (/\ pc \in {"returned", "done"}
   /\ IsGroupLookup \/ IsUserLookup
   /\ Replied
   /\ peerClosed
   /\ sent = 0)
  => /\ last.handled = TRUE
     /\ last.err = NilError
     /\ ~last.invoked
     /\ pc = "done" => result.value = NoValue

\* query is in progress on a connection the peer has accepted.
Connected == pc \in {"writeCheck", "write", "readCheck", "read", "process"}

\* C5: if the peer accepts the connection but never sends a reply and never
\* closes it, then once the deadline has passed query eventually returns
\* instead of blocking forever.
C5_SilentPeer ==
  (Connected /\ ctxDone) ~> (~Connected \/ sent > 0 \/ peerClosed)

C7_ErrorAborts ==
  (/\ Replied
   /\ last.decoded > 0
   /\ \/ LastReplies[last.decoded].perr # "none"
      \/ LastReplies[last.decoded].err
           \notin {<<>>, errNoRecordFound, errServiceNotAvailable})
  => /\ pc # "panic"
     /\ last.handled = TRUE
     /\ last.err # NilError
     /\ pc = "done" =>
          /\ result.handled = TRUE
          /\ result.err # NilError
          /\ result.value = NoValue

\* The parameters of the messages among the first k of replies that carry
\* no error, in order.
ParametersUpTo(replies, k) ==
  LET I == {i \in 1..k : replies[i].err = <<>>}
  IN  [j \in 1..Cardinality(I) |->
         replies[CHOOSE i \in I : Cardinality({h \in I : h < i}) = j - 1]
           .parameters]

\* Message i of replies parses and is either skipped or accumulated.
Clean(replies, i) ==
  /\ replies[i].perr = "none"
  /\ replies[i].err \in {<<>>, errNoRecordFound}

\* Message i of replies is accumulated and does not continue.
Final(replies, i) ==
  /\ replies[i].perr = "none"
  /\ replies[i].err = <<>>
  /\ ~replies[i].continues

RECURSIVE joinKept(_, _)
joinKept(msgs, i) ==
  IF i > Len(msgs) THEN <<>>
  ELSE (IF unmarshal(msgs[i]).perr = "none"
           /\ unmarshal(msgs[i]).err = errNoRecordFound
          THEN <<>> ELSE msgs[i] \o <<0>>)
       \o joinKept(msgs, i + 1)

\* C9: the parameter objects handed to the decoder and the (handled, error)
\* outcome of a response are those of the response with every
\* NoRecordFound message removed.
C9_NoRecordFoundIsDropped ==
  (pc = "returned" /\ Replied /\ last.resp # <<>>) =>
    \E out \in {processResponse(joinKept(messagesOf(last.resp), 1))} :
      \E ret \in {returnOf(out, decoder, <<>>)} :
        /\ ret.returned = last.returned
        /\ ret.handled = last.handled
        /\ ret.err = last.err
        /\ ret.params = last.params

\* The value of key that the claim of C10 resolves for the record of a
\* reply without perMachine entries: the binding entry of the caller's
\* machine id if it defines key, otherwise the base record, otherwise zero.
Resolved(T, record, key, zero) ==
  LET binding == jsonObjectGet("jsonObject", record, Bytes("binding"))
      mine    == jsonObjectGet("jsonObject", binding.v,
                               cl.perMachineRecord.machineId)
      bound   == jsonObjectGet(T, mine.v, Bytes(key))
      base    == jsonObjectGet(T, record, Bytes(key))
  IN  IF binding.ok /\ mine.ok /\ bound.ok THEN bound.v
      ELSE IF base.ok THEN base.v
      ELSE zero

\* C10: each overridable field of a group or user resolves to the value in
\* the binding entry of the caller's machine id if that entry defines it,
\* otherwise to the last matching perMachine entry that defines it,
\* otherwise to the base record's value, otherwise to zero or "".
C10_FieldResolution ==
  (/\ pc = "done"
   /\ IsGroupLookup \/ IsUserLookup
   /\ Replied
   /\ last.invoked
   /\ result.err = NilError
   /\ Bytes("perMachine") \notin DOMAIN last.params[1][Bytes("record")].v)
  => LET record == last.params[1][Bytes("record")].v
     IN  /\ IsGroupLookup =>
              result.value.Gid
                = FormatInt(Resolved("int64", record, "gid", Int64Zero))
         /\ IsUserLookup =>
              /\ result.value.Uid
                   = FormatInt(Resolved("int64", record, "uid", Int64Zero))
              /\ result.value.Gid
                   = FormatInt(Resolved("int64", record, "gid", Int64Zero))
              /\ result.value.Name
                   = Resolved("string", record, "realName", <<>>)
              /\ result.value.HomeDir
                   = Resolved("string", record, "homeDirectory", <<>>)

\* C11: in every lookup issued through a client, the machine identity that
\* the decoder of a group or user record uses for perMachine matching and
\* for the binding lookup is the identity held by that client.
C11_ClientIdentity ==
  (/\ pc \in {"returned", "done"}
   /\ Replied
   /\ last.invoked
   /\ last.err = NilError
   /\ decoder \in {"group", "user"})
  => last.rec.perMachineRecord = cl.perMachineRecord

\* C12: for a response that is the one message
\* {"parameters":{"record":{"groupName":G,"gid":N,...},"incomplete":false}}
\* lookupGroup returns handled=true, no error and Group{Name: G, Gid: N in
\* decimal}; for the analogous user record lookupUser returns Uid, Gid,
\* Username, Name and HomeDir from uid, gid, userName, realName and
\* homeDirectory.
C12_PlainRecord ==
  /\ (/\ pc = "done"
      /\ op.name = "lookupGroup"
      /\ Replied
      /\ last.resp = Message.PlainGroup \o <<0>>)
     => result = Result(Group(Bytes("g"), Bytes("1")), TRUE, NilError)
  /\ (/\ pc = "done"
      /\ op.name = "lookupUser"
      /\ Replied
      /\ last.resp = Message.PlainUser \o <<0>>)
     => result = Result(User(Bytes("1"), Bytes("2"), Bytes("u"), Bytes("U"),
                            Bytes("/h")),
                       TRUE, NilError)

\* The lookup has decoded a reply whose one parameter object has a record.
DecodedRecord ==
  /\ pc = "done"
  /\ IsGroupLookup \/ IsUserLookup
  /\ Replied
  /\ last.invoked
  /\ Len(last.params) = 1
  /\ Bytes("record") \in DOMAIN last.params[1]
  /\ last.params[1][Bytes("record")].t = "jsonObject"

\* C13: a group lookup fails with a decode error and handled=true when the
\* record of the reply lacks groupName, and a user lookup likewise when it
\* lacks userName; when the identifying field is there and every other
\* field is absent the lookup succeeds with the numeric ids "0" and the
\* other strings empty.
C13_IdentifyingField ==
  DecodedRecord =>
    LET record == last.params[1][Bytes("record")].v
        name   == IF IsGroupLookup THEN Bytes("groupName") ELSE Bytes("userName")
    IN  /\ name \notin DOMAIN record
             => /\ last.err.kind = "decode"
                /\ result.handled = TRUE
                /\ result.value = NoValue
                /\ IsSuffix(last.err.text, result.err.text)
        /\ (DOMAIN record = {name} /\ record[name].t = "string")
             => result =
                  Result(IF IsGroupLookup
                           THEN Group(record[name].v, Bytes("0"))
                           ELSE User(Bytes("0"), Bytes("0"), record[name].v,
                                     <<>>, <<>>),
                         TRUE, NilError)

\* A user lookup has failed on a record without userName.
C13_Witness ==
  /\ DecodedRecord
  /\ op.name = "lookupUserId"
  /\ last.resp = Message.UserNoName \o <<0>>
  /\ result.value = NoValue
  /\ result.handled
  /\ result.err # NilError

\* C14: when all its round trips succeed, lookupGroupIds(u) returns, viewed
\* as a set, exactly the gid of the group named u together with the gid of
\* every distinct groupName of the membership reply messages, each as a
\* decimal string, whatever the iteration order of the membership map: the
\* gids returned are those of one GetGroupRecord round trip for u and one
\* for each streamed group name.
C14_GroupIdsAsSet ==
  (/\ pc = "done"
   /\ op.name = "lookupGroupIds"
   /\ result.handled
   /\ result.err = NilError)
  => /\ result.value.kind = "gids"
     /\ Range(asked) = {op.arg} \cup streamed.groups
     /\ Len(result.value.gids) = Len(asked)
     /\ \A i \in 1..Len(asked) :
          /\ result.value.gids[i] # <<>>
          /\ \A j \in 1..Len(result.value.gids[i]) :
               isDigit(result.value.gids[i][j])

\* C15: on every exit path of query after the socket has been created the
\* socket is closed when query returns, and it is closed exactly once: it
\* is open from Socket to the return and closed, once, from then on; there
\* is no socket only when Socket has failed or was never called.
C15_SocketClosed ==
  /\ pc \in {"connect", "writeCheck", "write", "readCheck", "read", "process"}
       => sock = "open"
  /\ pc = "returned"
       => sock = IF last.err = EMFILE THEN "none" ELSE "closed"
  /\ pc = "done"
       => sock = IF last.err = EMFILE \/ ~last.returned THEN "none" ELSE "closed"

\* query has returned on a timeout after it had written its request.
C15_Witness ==
  /\ pc = "returned"
  /\ last.err = DeadlineExceeded
  /\ written = Len(request)
  /\ sock = "closed"

\* C16: for every byte sequence, including empty input, input that ends
\* right after a colon or after whitespace, and unterminated objects and
\* arrays, each of parseJSONElement, parseJSONObject, parseJSONArray,
\* parseJSONString, parseJSONInt64 and parseJSONBoolean returns a value or
\* an error; none indexes the buffer outside its bounds.
C16_ParsersTotal ==
  parsed.fn \in {"parseJSONElement", "parseJSONObject", "parseJSONArray",
                 "parseJSONString", "parseJSONInt64", "parseJSONBoolean"}
    => parsed.res.err # "panic"

\* The length of the leading run of ASCII digits of b.
LeadingDigits(b) ==
  CHOOSE n \in 0..Len(b) :
    /\ \A i \in 1..n : isDigit(b[i])
    /\ n = Len(b) \/ ~isDigit(b[n + 1])

\* C17: parseJSONInt64 rejects with an error every input whose leading run
\* of ASCII digits has length 20 or more, whatever follows the run, and for
\* every run of 1 to 19 digits returns the decimal value of the run with no
\* error and the bytes after the run as remainder.
C17_Int64 ==
  parsed.fn = "parseJSONInt64" =>
    LET n == LeadingDigits(input)
    IN  /\ n >= 20 => parsed.res.err \notin {"none", "panic"}
        /\ n \in 1..19 =>
             /\ parsed.res.err = "none"
             /\ parsed.res.v
                  = VInt64([neg |-> FALSE,
                            mag |-> stripZeros([i \in 1..n |-> input[i] - 48])])
             /\ Slice(input, parsed.res.r) = SubSeq(input, n + 1, Len(input))

\* The ways to write one character of string content: a raw byte, a simple
\* escape, a \u escape.
ContentUnits == {Bytes("a"), Bytes("\\n"), Bytes("\\u0041")}

\* b is a quoted string whose content is k repetitions of unit.
QuotedRepeat(b, unit, k) ==
  /\ Len(b) = k * Len(unit) + 2
  /\ b = <<34>> \o Repeat(unit, k) \o <<34>>

\* C18: every string parseJSONString returns without error has length at
\* most 4096, and a quoted string of more than 4096 characters of content
\* yields an error whether the content is written as raw bytes, as simple
\* escapes or as \u escapes; one of at most 4096 is returned whole.
C18_StringBound ==
  parsed.fn = "parseJSONString" =>
    /\ parsed.res.err = "none" =>
         /\ parsed.res.v.t = "string"
         /\ Len(parsed.res.v.v) <= MaxStringLen
    /\ \A unit \in ContentUnits :
         LET k == (Len(input) - 2) \div Len(unit)
         IN  (Len(input) >= 3 /\ QuotedRepeat(input, unit, k)) =>
               IF k > MaxStringLen
                 THEN parsed.res.err = "string too large"
                 ELSE /\ parsed.res.err = "none"
                      /\ Len(parsed.res.v.v) = k

\* Content of 4097 \u escapes was refused.
C18_Witness ==
  /\ parsed.fn = "parseJSONString"
  /\ QuotedRepeat(input, Bytes("\\u0041"), MaxStringLen + 1)
  /\ parsed.res.err = "string too large"

\* The GetMemberships call has returned without error, and the service has
\* sent the last message of its stream.
MembershipsRead ==
  /\ pc = "returned"
  /\ op.name = "lookupGroupIds"
  /\ stage = "memberships"
  /\ last.invoked
  /\ last.err = NilError
  /\ sent > 0
  /\ ~streamed.more

\* C19: every (userName, groupName) message the service streams in reply to
\* GetMemberships, up to and including the final one, is accumulated into
\* the membership set, however the NUL-terminated messages are split or
\* grouped across socket reads.
C19_AllMessagesAccumulated ==
  MembershipsRead =>
    \A g \in streamed.groups :
      /\ g \in DOMAIN last.rec.groupUsers
      /\ op.arg \in last.rec.groupUsers[g]

\* The entries of the perMachine member of obj.
EntriesOf(obj) ==
  IF Bytes("perMachine") \notin DOMAIN obj THEN <<>>
  ELSE LET x == obj[Bytes("perMachine")]
       IN  IF x.t = "[]jsonObject" THEN x.v
           ELSE [i \in 1..Len(x.v) |-> x.v[i].v]

\* The member key of per, an array of strings or a single string, contains
\* or equals s.
ContainsOrEquals(per, key, s) ==
  /\ Bytes(key) \in DOMAIN per
  /\ LET x == per[Bytes(key)]
     IN  CASE x.t = "string" -> x.v = s
           [] x.t = "[]string" -> \E i \in 1..Len(x.v) : x.v[i] = s
           [] x.t = "[]any" -> \E i \in 1..Len(x.v) : x.v[i] = VString(s)
           [] OTHER -> FALSE

EntryMatches(p, per) ==
  \/ ContainsOrEquals(per, "matchMachineId", p.machineId)
  \/ ContainsOrEquals(per, "matchHostname", p.hostname)

\* C20: perMachineMatches returns exactly the entries of perMachine whose
\* matchMachineId, an array of strings or a single string, contains or
\* equals the caller's machine id, or whose matchHostname, an array of
\* strings or a single string, contains or equals the caller's hostname;
\* entries matching neither contribute nothing.
C20_PerMachineMatching ==
  parsed.fn = "perMachineMatches" =>
    parsed.res.v = SelectSeq(EntriesOf(input.obj),
                             LAMBDA per : EntryMatches(input.p, per))

\* The round trip of lookupGroupIds that has returned was unhandled or failed.
RoundTripFailed == ~last.handled \/ last.err # NilError

\* The membership group names lookupGroupIds has not yet asked the gid of.
NotYetAsked == DOMAIN ms.groupUsers \ Range(Tail(asked))

\* A step of lookupGroupIds keeps the order of its round trips.
RoundTripsInOrder ==
  op'.name = "lookupGroupIds" =>
    \* A round trip begins at the start of the lookup or when the previous one
    \* has returned, never during one.
    /\ (pc' = "socket" /\ pc # "socket") =>
         \/ /\ pc = "idle"
            /\ call' = membershipsCall(op'.arg)
         \/ /\ pc = "returned"
            /\ ~RoundTripFailed
            /\ call.method = mGetMemberships
            /\ call' = groupCall(NilInt, op.arg)
         \/ /\ pc = "returned"
            /\ ~RoundTripFailed
            /\ call.method = mGetGroupRecord
            /\ \E g \in NotYetAsked :
                 /\ call' = groupCall(NilInt, g)
                 /\ asked' = Append(asked, g)
    \* The first round trip that is unhandled or fails ends the lookup.
    /\ (pc = "returned" /\ RoundTripFailed) =>
         /\ pc' = "done"
         /\ result'.value = NoValue
         /\ result'.handled = last.handled
    \* The list is returned when every membership group has been asked.
    /\ (pc = "returned" /\ pc' = "done" /\ ~RoundTripFailed) =>
         /\ call.method = mGetGroupRecord
         /\ NotYetAsked = {}
         /\ result'.value.kind = "gids"
    \* Nothing follows the return of the lookup.
    /\ pc = "done" => (pc' = "done" /\ call' = call /\ result' = result)

\* C21: lookupGroupIds performs its round trips strictly one after another:
\* GetMemberships first, then GetGroupRecord for the group named like the
\* user, then one GetGroupRecord per distinct membership group name; the
\* first round trip that is unhandled or fails aborts the operation, after
\* which no further round trip is issued and no gid list is returned.
C21_RoundTripsInOrder == [][RoundTripsInOrder]_vars

\* The third round trip of a lookupGroupIds has failed and ended the lookup.
C21_Witness ==
  /\ pc = "done"
  /\ op.name = "lookupGroupIds"
  /\ stage = "groups"
  /\ Len(asked) = 2
  /\ RoundTripFailed
  /\ result.value = NoValue

\* C22: the list lookupGroupIds returns is a set: no gid string occurs in
\* it more than once, also when the membership replies name the group that
\* equals the user name or when two group names resolve to the same gid.
C22_NoDuplicateGids ==
  (/\ pc = "done"
   /\ op.name = "lookupGroupIds"
   /\ result.handled
   /\ result.err = NilError
   /\ result.value.kind = "gids")
  => \A i, j \in 1..Len(result.value.gids) :
       result.value.gids[i] = result.value.gids[j] => i = j

\* One step of the search for the first quote of b that no backslash
\* escapes: s.at is its index once found, 0 if there is none.
QuoteScan(b, s) ==
  IF s.i > Len(b) THEN [s EXCEPT !.done = TRUE]
  ELSE IF b[s.i] = 34 THEN [s EXCEPT !.done = TRUE, !.at = s.i]
  ELSE [s EXCEPT !.i = IF b[s.i] = 92 THEN @ + 2 ELSE @ + 1]

\* The index in b of the closing quote of the string that begins b, after
\* leading spaces.
ClosingQuote(b) ==
  Iterate(LAMBDA s : QuoteScan(b, s),
          [i |-> skipSpace(b, 0) + 2, done |-> FALSE, at |-> 0],
          Len(b) + 1).at

\* C23: when parseJSONString succeeds, the remainder it returns is exactly
\* the suffix of the input that begins immediately after the closing quote
\* of the string, whether or not the string ends the input.
C23_StringRemainder ==
  (parsed.fn = "parseJSONString" /\ parsed.res.err = "none") =>
    /\ ClosingQuote(input) # 0
    /\ Slice(input, parsed.res.r)
         = SubSeq(input, ClosingQuote(input) + 1, Len(input))

\* C24: when parseJSONObject (parseJSONArray) succeeds, its closing '}'
\* (']') has been consumed: the last byte before the remainder is that
\* bracket, and the remainder is empty for {"foo": "bar"} and one space for
\* {"test": [1, 2, 3]} followed by a space.
C24_ClosingBracketConsumed ==
  /\ (parsed.fn = "parseJSONObject" /\ parsed.res.err = "none") =>
       (parsed.res.r > 0 /\ input[parsed.res.r] = 125)
  /\ (parsed.fn = "parseJSONArray" /\ parsed.res.err = "none") =>
       (parsed.res.r > 0 /\ input[parsed.res.r] = 93)
  /\ (parsed.fn = "parseJSONObject" /\ input = Bytes("{\"foo\": \"bar\"}")) =>
       (parsed.res.err = "none" /\ Slice(input, parsed.res.r) = <<>>)
  /\ (parsed.fn = "parseJSONObject"
        /\ input = Bytes("{\"test\": [1, 2, 3]} ")) =>
       (parsed.res.err = "none" /\ Slice(input, parsed.res.r) = Bytes(" "))

\* The int64 value n, for 0 <= n <= 9.
Digit(n) == VInt64([neg |-> FALSE, mag |-> <<n>>])

\* C25: parseJSONObject and parseJSONArray accept containers whose members
\* are separated by commas, such as [1, 2, 3] or {"a":1,"b":2}, and return
\* every member.
C25_CommaSeparated ==
  /\ (parsed.fn = "parseJSONArray" /\ input = Bytes("[1, 2, 3]")) =>
       /\ parsed.res.err = "none"
       /\ parsed.res.v = VArray(<<Digit(1), Digit(2), Digit(3)>>)
  /\ (parsed.fn = "parseJSONObject" /\ input = Bytes("{\"a\":1,\"b\":2}")) =>
       /\ parsed.res.err = "none"
       /\ parsed.res.v = VObject((Bytes("a") :> Digit(1)) @@ (Bytes("b") :> Digit(2)))

\* parseJSONString, applied to the quoted string body, returns want.
DecodesTo(body, want) ==
  (parsed.fn = "parseJSONString" /\ input = <<34>> \o Bytes(body) \o <<34>>) =>
    /\ parsed.res.err = "none"
    /\ parsed.res.v = VString(want)

\* U+FFFD in UTF-8.
Replacement == <<239, 191, 189>>

\* C26: in parseJSONString a high surrogate escape followed by a \uXXXX low
\* surrogate decodes to the single combined code point; a surrogate that is
\* not followed by a valid low surrogate (end of string, ordinary
\* characters, or a \uXXXX escape that is not a low surrogate) decodes to
\* U+FFFD, and what was read as lookahead is decoded normally afterwards.
C26_Surrogates ==
  /\ DecodesTo("\\uD800\\uDC00", <<240, 144, 128, 128>>)
  /\ DecodesTo("\\uD83D\\uDE00", <<240, 159, 152, 128>>)
  /\ DecodesTo("\\uD800", Replacement)
  /\ DecodesTo("\\uD800ab", Replacement \o Bytes("ab"))
  /\ DecodesTo("\\uD800abcdefg", Replacement \o Bytes("abcdefg"))
  /\ DecodesTo("\\uD800\\n", Replacement \o <<10>>)
  /\ DecodesTo("\\uD800\\u0041", Replacement \o Bytes("A"))

\* lookupGroupId or lookupUserId has returned for an id that is not a
\* decimal 64-bit integer.
BadIdLookupDone ==
  /\ pc = "done"
  /\ op.name \in {"lookupGroupId", "lookupUserId"}
  /\ ParseInt(op.arg).err # "none"

\* C27: lookupGroupId and lookupUserId, given an id string that is not a
\* decimal 64-bit integer, return handled=true with an error and no record,
\* and perform no socket operation at all: query is never called.
C27_BadIdNoSocket ==
  BadIdLookupDone =>
    /\ result.handled = TRUE
    /\ result.err # NilError
    /\ result.value = NoValue
    /\ call = NoCall
    /\ request = <<>>
    /\ sock = "none"
    /\ ios = 0
    /\ sent = 0
    /\ last = NoLast

\* lookupUserId has refused an id beyond the int64 range.
C27_Witness ==
  /\ BadIdLookupDone
  /\ op = [name |-> "lookupUserId", arg |-> Bytes("9223372036854775808")]
  /\ result.err.kind = "strconv"
  /\ sock = "none"

\* C28: findElementStart returns an error when the input is empty or when
\* its first non-space byte is not a colon; otherwise it returns the suffix
\* of the input that begins at the first non-space byte after that colon,
\* the empty suffix when only whitespace or nothing follows the colon.
C28_FindElementStart ==
  parsed.fn = "findElementStart" =>
    LET q == skipSpace(input, 0)
    IN  IF q = Len(input) \/ input[q + 1] # 58
          THEN parsed.res.err \notin {"none", "panic"}
          ELSE /\ parsed.res.err = "none"
               /\ Slice(input, parsed.res.r) = Slice(input, skipSpace(input, q + 1))

====
